---- MODULE Spec2Model ----
(***************************************************************************)
(* Model of include/linux/caif/caif_socket.h: the CAIF socket address      *)
(* (struct sockaddr_caif), the protocol and priority enumerations and the  *)
(* CAIF socket options.                                                     *)
(*                                                                          *)
(* The address is modelled at byte level: the union u is a block of bytes  *)
(* and every member is a (offset, length) window on it, as the C layout    *)
(* rules place it.  A store to a member writes exactly the member's bytes; *)
(* a load decodes them.  The byte order of __u32 is that of the build and  *)
(* is chosen in Init.                                                       *)
(***************************************************************************)
EXTENDS Integers, Sequences, FiniteSets

(* ------------------------------ bounds --------------------------------- *)
MaxNameLen == 17      \* longest service / volume name a caller offers
NumSeeds == 2         \* distinct contents per buffer length
MaxParamLen == 257    \* longest REQ_PARAM buffer a caller offers
MaxPrioInput == 33    \* largest priority a caller offers

(* ------------------------ enum caif_channel_priority ------------------- *)
CAIF_PRIO_MIN == 1
CAIF_PRIO_LOW == 4
CAIF_PRIO_NORMAL == 15
CAIF_PRIO_HIGH == 20
\* a maximum that is one too large
CAIF_PRIO_MAX_off == 31 + 1
CAIF_PRIO_MAX == 31

(* ------------------------ enum caif_protocol_type ---------------------- *)
CAIFPROTO_AT == 0
CAIFPROTO_DATAGRAM == 1
\* an enumerator that repeats the value before it
CAIFPROTO_DATAGRAM_LOOP_dup == CAIFPROTO_DATAGRAM
CAIFPROTO_DATAGRAM_LOOP == 2
CAIFPROTO_UTIL == 3
CAIFPROTO_RFM == 4
CAIFPROTO_MAX == 5

CAIF_ATTYPE_PLAIN == 2

(* ------------------------ enum caif_socket_opts ------------------------ *)
CAIFSO_LINK_SELECT == 127
CAIFSO_REQ_PARAM == 128
CAIFSO_RSP_PARAM == 129
CAIFSO_PARAM_MAX_off == 256 + 1
\* "(maximum 256 bytes)" of CAIFSO_REQ_PARAM and CAIFSO_RSP_PARAM
CAIFSO_PARAM_MAX == 256

(* ------------------------ struct sockaddr_caif layout ------------------ *)
U8_SIZE == 1
U32_SIZE == 4

Max2(a, b) == IF a >= b THEN a ELSE b

\* u.at { __u8 type; }
AT_TYPE_OFF == 0
SizeofAt == AT_TYPE_OFF + U8_SIZE

\* u.util { char service[16]; }
UTIL_SERVICE_OFF == 0
UTIL_SERVICE_LEN_long == 16 + 1
UTIL_SERVICE_LEN == 16
SizeofUtil == UTIL_SERVICE_OFF + UTIL_SERVICE_LEN

\* u.dgm: union { __u32 connection_id; __u8 nsapi; }
DGM_CONNECTION_ID_OFF == 0
\* nsapi placed after connection_id, as in a struct
DGM_NSAPI_OFF_struct == DGM_CONNECTION_ID_OFF + U32_SIZE
DGM_NSAPI_OFF == 0
SizeofDgm == Max2(DGM_CONNECTION_ID_OFF + U32_SIZE, DGM_NSAPI_OFF + U8_SIZE)

\* u.rfm { __u32 connection_id; char volume[16]; }
RFM_CONNECTION_ID_OFF == 0
\* volume placed on the last byte of connection_id
RFM_VOLUME_OFF_overlap == RFM_CONNECTION_ID_OFF + U32_SIZE - 1
RFM_VOLUME_OFF == RFM_CONNECTION_ID_OFF + U32_SIZE
RFM_VOLUME_LEN_long == 16 + 1
RFM_VOLUME_LEN == 16
SizeofRfm == RFM_VOLUME_OFF + RFM_VOLUME_LEN

\* the union u is as large as its largest member (all sizes are multiples
\* of the 4-byte alignment of __u32 once rounded up)
RoundUp(n, a) == ((n + a - 1) \div a) * a
SizeofU == RoundUp(Max2(Max2(SizeofAt, SizeofUtil), Max2(SizeofDgm, SizeofRfm)), U32_SIZE)

Offsets == 0 .. (SizeofU - 1)

(* ------------------------ bytes and integers --------------------------- *)
\* A __u32 is kept as its two 16-bit halves, [hi, lo], value hi * 2^16 + lo.
Half == 65536
U32(h, l) == [hi |-> h, lo |-> l]

\* the conversion of a C integer, given as halves, to __u32
ToU32(v) == U32(v.hi % Half, v.lo % Half)

\* the four bytes of a __u32 in memory order
EncodeU32(v, e) ==
    LET w == ToU32(v)
        b0 == w.lo % 256
        b1 == w.lo \div 256
        b2 == w.hi % 256
        b3 == w.hi \div 256
    IN IF e = "LE" THEN <<b0, b1, b2, b3>> ELSE <<b3, b2, b1, b0>>

\* the __u32 that four bytes in memory order hold
DecodeU32(b, e) ==
    IF e = "LE"
    THEN U32(b[3] + 256 * b[4], b[1] + 256 * b[2])
    ELSE U32(b[2] + 256 * b[1], b[4] + 256 * b[3])

\* a store that runs one byte past the member
Store_spill(m, off, bs) ==
    [i \in DOMAIN m |->
        IF i >= off /\ i < off + Len(bs) THEN bs[i - off + 1]
        ELSE IF i = off + Len(bs) /\ Len(bs) > 0 THEN bs[Len(bs)]
        ELSE m[i]]

\* a store of the bytes bs at offset off of the union
Store(m, off, bs) ==
    [i \in DOMAIN m |->
        IF i >= off /\ i < off + Len(bs) THEN bs[i - off + 1] ELSE m[i]]

\* the n bytes at offset off of the union
Load(m, off, n) == [i \in 1 .. n |-> m[off + i - 1]]

Window(off, n) == off .. (off + n - 1)

(* ------------------------ the inputs a caller offers ------------------- *)
Seeds == 1 .. NumSeeds
NameLens == 16 .. MaxNameLen
\* a name or buffer of the given length; no byte of it is zero
Buf(len, seed) == [i \in 1 .. len |-> 1 + ((seed * 32 + i) % 255)]
Names == {Buf(l, s) : l \in NameLens, s \in Seeds}
\* 0, 1, 0x01020304, 2^31 and 2^32 - 1
U32Samples == {U32(0, 0), U32(0, 1), U32(258, 772), U32(32768, 0), U32(65535, 65535)}
NsapiSamples == {0, 1, 4, 255}
AtTypes == {0, CAIF_ATTYPE_PLAIN, 255}
GarbageBytes == {0, 165}
ParamLens == (0 .. 2) \cup {128} \cup (255 .. MaxParamLen)
Params == {Buf(l, s) : l \in ParamLens, s \in Seeds}
Responses == {Buf(l, 7) : l \in {0, 1, 256}}
Priorities == 0 .. MaxPrioInput
DgmVariants == {"DATAGRAM", "DATAGRAM_LOOP"}

(* ------------------------------- state --------------------------------- *)
VARIABLES
    endian,     \* byte order of the build: "LE" or "BE"
    protocol,   \* enum caif_protocol_type the address is built for
    mem,        \* the bytes of sockaddr_caif.u
    mem2,       \* the bytes of u in a second caller's storage, which gets
                \* the same stores but started with other contents
    fresh,      \* "DIRTY", or "CLEAN" after zeroing, or the one arm
                \* stored since zeroing
    op,         \* the last operation, its inputs and its result
    sk_state,   \* "UNCONNECTED" or "CONNECTED"
    req_param,  \* the stored CAIFSO_REQ_PARAM
    rsp_param,  \* the stored CAIFSO_RSP_PARAM
    priority    \* the channel priority

vars == <<endian, protocol, mem, mem2, fresh, op, sk_state, req_param, rsp_param, priority>>

NoOp == [name |-> "none", variant |-> "NONE", arm |-> "none", num |-> U32(0, 0),
         bytes |-> <<>>, ret |-> "ok", touched |-> {}]

Unset == [set |-> FALSE, data |-> <<>>]

Init ==
    /\ endian \in {"LE", "BE"}
    /\ protocol = CAIFPROTO_MAX
    /\ mem \in {[i \in Offsets |-> g] : g \in GarbageBytes}
    /\ mem2 \in {[i \in Offsets |-> g] : g \in GarbageBytes}
    /\ fresh = "DIRTY"
    /\ op = NoOp
    /\ sk_state = "UNCONNECTED"
    /\ req_param = Unset
    /\ rsp_param = Unset
    /\ priority = CAIF_PRIO_NORMAL

(* ------------------------ reading an address --------------------------- *)
\* the variant a protocol number selects
ProtocolType(n) ==
    IF n = CAIFPROTO_AT THEN "AT"
    ELSE IF n = CAIFPROTO_DATAGRAM THEN "DATAGRAM"
    ELSE IF n = CAIFPROTO_DATAGRAM_LOOP THEN "DATAGRAM_LOOP"
    ELSE IF n = CAIFPROTO_UTIL THEN "UTIL"
    ELSE IF n = CAIFPROTO_RFM THEN "RFM"
    ELSE "INVALID"

Variants == {"AT", "DATAGRAM", "DATAGRAM_LOOP", "UTIL", "RFM"}

ProtocolOf(v) ==
    IF v = "AT" THEN CAIFPROTO_AT
    ELSE IF v = "DATAGRAM" THEN CAIFPROTO_DATAGRAM
    ELSE IF v = "DATAGRAM_LOOP" THEN CAIFPROTO_DATAGRAM_LOOP
    ELSE IF v = "UTIL" THEN CAIFPROTO_UTIL
    ELSE CAIFPROTO_RFM

\* the variants whose arm of u applies to a protocol number
ActiveVariants(n) == {v \in Variants : ProtocolOf(v) = n}

\* the arm of u that applies to a variant
ArmOf(v) ==
    IF v = "AT" THEN "at"
    ELSE IF v = "UTIL" THEN "util"
    ELSE IF v = "DATAGRAM" \/ v = "DATAGRAM_LOOP" THEN "dgm"
    ELSE IF v = "RFM" THEN "rfm"
    ELSE "none"

Arms == {"at", "util", "dgm", "rfm"}

SizeofArm(a) ==
    IF a = "at" THEN SizeofAt
    ELSE IF a = "util" THEN SizeofUtil
    ELSE IF a = "dgm" THEN SizeofDgm
    ELSE IF a = "rfm" THEN SizeofRfm
    ELSE 0

Payload(a) == 0 .. (SizeofArm(a) - 1)

AtType(m) == m[AT_TYPE_OFF]
UtilService(m) == Load(m, UTIL_SERVICE_OFF, UTIL_SERVICE_LEN)
DgmConnectionId(m, e) == DecodeU32(Load(m, DGM_CONNECTION_ID_OFF, U32_SIZE), e)
DgmNsapi(m) == m[DGM_NSAPI_OFF]
RfmConnectionId(m, e) == DecodeU32(Load(m, RFM_CONNECTION_ID_OFF, U32_SIZE), e)
RfmVolume(m) == Load(m, RFM_VOLUME_OFF, RFM_VOLUME_LEN)

(* ------------------------ building an address -------------------------- *)
\* the arm stored since the storage was zeroed
Stored(f, a) == IF f = "CLEAN" \/ f = a THEN a ELSE "DIRTY"

\* a store of bs into the member at off, in an address built for variant v
StoreMember(name, v, off, bs, n) ==
    /\ protocol' = ProtocolOf(v)
    /\ mem' = Store(mem, off, bs)
    /\ mem2' = Store(mem2, off, bs)
    /\ fresh' = Stored(fresh, ArmOf(v))
    /\ op' = [name |-> name, variant |-> v, arm |-> ArmOf(v), num |-> n, bytes |-> bs,
              ret |-> "ok", touched |-> Window(off, Len(bs)) \cap DOMAIN mem]
    /\ UNCHANGED <<endian, sk_state, req_param, rsp_param, priority>>

\* a refused store: nothing but the result changes
Refuse(name, v, bs, err) ==
    /\ op' = [name |-> name, variant |-> v, arm |-> ArmOf(v), num |-> U32(0, 0),
              bytes |-> bs, ret |-> err, touched |-> {}]
    /\ UNCHANGED <<endian, protocol, mem, mem2, fresh, sk_state, req_param, rsp_param, priority>>

\* memset(&addr, 0, sizeof(addr))
Zero ==
    /\ mem' = [i \in Offsets |-> 0]
    /\ mem2' = [i \in Offsets |-> 0]
    /\ fresh' = "CLEAN"
    /\ op' = [NoOp EXCEPT !.name = "zero", !.touched = Offsets]
    /\ UNCHANGED <<endian, protocol, sk_state, req_param, rsp_param, priority>>

\* addr.u.at.type = t
SetAtType ==
    \E t \in AtTypes :
        StoreMember("at.type", "AT", AT_TYPE_OFF, <<t % 256>>, U32(0, t))

\* addr.u.util.service = name
SetUtilService ==
    \E name \in Names :
        IF Len(name) > UTIL_SERVICE_LEN
        THEN Refuse("util.service", "UTIL", name, "ENAMETOOLONG")
        ELSE StoreMember("util.service", "UTIL", UTIL_SERVICE_OFF, name, U32(0, 0))

\* addr.u.dgm.connection_id = c
SetDgmConnectionId ==
    \E v \in DgmVariants, c \in U32Samples :
        StoreMember("dgm.connection_id", v, DGM_CONNECTION_ID_OFF,
                    EncodeU32(c, endian), c)

\* addr.u.dgm.nsapi = n
SetDgmNsapi ==
    \E v \in DgmVariants, n \in NsapiSamples :
        StoreMember("dgm.nsapi", v, DGM_NSAPI_OFF, <<n % 256>>, U32(0, n))

\* addr.u.rfm.connection_id = c
SetRfmConnectionId ==
    \E c \in U32Samples :
        StoreMember("rfm.connection_id", "RFM", RFM_CONNECTION_ID_OFF,
                    EncodeU32(c, endian), c)

\* addr.u.rfm.volume = name
SetRfmVolume ==
    \E name \in Names :
        IF Len(name) > RFM_VOLUME_LEN
        THEN Refuse("rfm.volume", "RFM", name, "ENAMETOOLONG")
        ELSE StoreMember("rfm.volume", "RFM", RFM_VOLUME_OFF, name, U32(0, 0))

NextAddr ==
    \/ Zero
    \/ SetAtType
    \/ SetUtilService
    \/ SetDgmConnectionId
    \/ SetDgmNsapi
    \/ SetRfmConnectionId
    \/ SetRfmVolume

SpecAddr == Init /\ [][NextAddr]_vars

(* ------------------------ the socket options --------------------------- *)
\* a socket operation that leaves the address alone
SockOp(name, bs, err) ==
    /\ op' = [NoOp EXCEPT !.name = name, !.bytes = bs, !.ret = err]
    /\ UNCHANGED <<endian, protocol, mem, mem2, fresh, priority>>

\* a setsockopt that overwrites request parameters already set
SetReqParam_rewrite ==
    \E buf \in Params :
        IF sk_state # "UNCONNECTED"
        THEN SockOp("set.REQ_PARAM", buf, "EISCONN")
             /\ UNCHANGED <<sk_state, req_param, rsp_param>>
        ELSE IF Len(buf) > CAIFSO_PARAM_MAX
        THEN SockOp("set.REQ_PARAM", buf, "EINVAL")
             /\ UNCHANGED <<sk_state, req_param, rsp_param>>
        ELSE /\ SockOp("set.REQ_PARAM", buf, "ok")
             /\ req_param' = [set |-> TRUE, data |-> buf]
             /\ UNCHANGED <<sk_state, rsp_param>>

\* setsockopt(fd, SOL_CAIF, CAIFSO_REQ_PARAM, buf, len)
SetReqParam ==
    \E buf \in Params :
        IF sk_state # "UNCONNECTED"
        THEN SockOp("set.REQ_PARAM", buf, "EISCONN")
             /\ UNCHANGED <<sk_state, req_param, rsp_param>>
        ELSE IF req_param.set
        THEN SockOp("set.REQ_PARAM", buf, "EALREADY")
             /\ UNCHANGED <<sk_state, req_param, rsp_param>>
        ELSE IF Len(buf) > CAIFSO_PARAM_MAX
        THEN SockOp("set.REQ_PARAM", buf, "EINVAL")
             /\ UNCHANGED <<sk_state, req_param, rsp_param>>
        ELSE /\ SockOp("set.REQ_PARAM", buf, "ok")
             /\ req_param' = [set |-> TRUE, data |-> buf]
             /\ UNCHANGED <<sk_state, rsp_param>>

\* a connect that stores the response of a refused connection
Connect_stale ==
    \E accepted \in BOOLEAN, rsp \in Responses :
        IF sk_state # "UNCONNECTED"
        THEN SockOp("connect", <<>>, "EISCONN")
             /\ UNCHANGED <<sk_state, req_param, rsp_param>>
        ELSE /\ SockOp("connect", <<>>, IF accepted THEN "ok" ELSE "ECONNREFUSED")
             /\ sk_state' = IF accepted THEN "CONNECTED" ELSE sk_state
             /\ rsp_param' = [set |-> TRUE, data |-> rsp]
             /\ UNCHANGED req_param

\* connect(fd, &addr, sizeof(addr)); the modem accepts or refuses
Connect ==
    \E accepted \in BOOLEAN, rsp \in Responses :
        IF sk_state # "UNCONNECTED"
        THEN SockOp("connect", <<>>, "EISCONN")
             /\ UNCHANGED <<sk_state, req_param, rsp_param>>
        ELSE IF accepted
        THEN /\ SockOp("connect", <<>>, "ok")
             /\ sk_state' = "CONNECTED"
             /\ rsp_param' = [set |-> TRUE, data |-> rsp]
             /\ UNCHANGED req_param
        ELSE /\ SockOp("connect", <<>>, "ECONNREFUSED")
             /\ rsp_param' = Unset
             /\ UNCHANGED <<sk_state, req_param>>

\* getsockopt(fd, SOL_CAIF, CAIFSO_RSP_PARAM, buf, &len)
GetRspParam ==
    /\ IF rsp_param.set
       THEN SockOp("get.RSP_PARAM", rsp_param.data, "ok")
       ELSE SockOp("get.RSP_PARAM", <<>>, "ENOTCONN")
    /\ UNCHANGED <<sk_state, req_param, rsp_param>>

NextSock ==
    \/ SetReqParam
    \/ Connect
    \/ GetRspParam

SpecSock == Init /\ [][NextSock]_vars

(* ------------------------ the channel priority ------------------------- *)
PrioValid(p) == CAIF_PRIO_MIN <= p /\ p <= CAIF_PRIO_MAX

\* a channel priority is offered
SetPriority ==
    \E p \in Priorities :
        /\ IF PrioValid(p)
           THEN /\ priority' = p
                /\ op' = [NoOp EXCEPT !.name = "priority", !.num = U32(0, p)]
           ELSE /\ priority' = priority
                /\ op' = [NoOp EXCEPT !.name = "priority", !.num = U32(0, p),
                                      !.ret = "EINVAL"]
        /\ UNCHANGED <<endian, protocol, mem, mem2, fresh, sk_state, req_param, rsp_param>>

NextPrio == SetPriority

SpecPrio == Init /\ [][NextPrio]_vars

(* ============================ properties =============================== *)
StoreDone == op.arm \in Arms /\ op.ret = "ok"

\* C1: CAIFSO_RSP_PARAM holds a response only after a connect on the socket
\* has succeeded; before any connect and after a refused connect it is unset
\* and a get of it returns no response blob.
C1_RspParamOnlyAfterConnect ==
    /\ rsp_param.set => sk_state = "CONNECTED"
    /\ (op.name = "get.RSP_PARAM" /\ op.ret = "ok") => sk_state = "CONNECTED"
    /\ (op.name = "get.RSP_PARAM" /\ sk_state = "UNCONNECTED")
          => (op.ret # "ok" /\ op.bytes = <<>>)
    /\ (op.name = "connect" /\ op.ret = "ECONNREFUSED") => ~rsp_param.set

C1_Witness ==
    /\ op.name = "get.RSP_PARAM"
    /\ op.ret = "ok"
    /\ Len(op.bytes) = 256
    /\ sk_state = "CONNECTED"

\* C2: CAIFSO_REQ_PARAM is write-once-before-connect: once the request
\* parameters are set, or once the socket is connected, no step changes
\* the stored request parameters.
C2_ReqParamWriteOnce ==
    [][(req_param.set \/ sk_state = "CONNECTED") => req_param' = req_param]_vars

C2_Witness ==
    /\ op.name = "set.REQ_PARAM"
    /\ op.ret = "EALREADY"
    /\ req_param.set
    /\ op.bytes # req_param.data

\* C3: an address built for a variant reads back as that variant, and
\* exactly one variant is active for it.
C3_DiscriminatorRoundTrip ==
    StoreDone =>
        /\ ProtocolType(protocol) = op.variant
        /\ Cardinality(ActiveVariants(protocol)) = 1

C3_Witness ==
    /\ StoreDone
    /\ op.variant = "DATAGRAM_LOOP"
    /\ ProtocolType(protocol) = "DATAGRAM_LOOP"

\* the byte of a __u32 that lies first in memory
FirstByte(c, e) == EncodeU32(c, e)[1]

C5_PriorityRange ==
    [][op'.name = "priority" =>
          IF 1 <= op'.num.lo /\ op'.num.lo <= 31
          THEN op'.ret = "ok" /\ priority' = op'.num.lo
          ELSE op'.ret # "ok" /\ priority' = priority]_vars

C5_Witness ==
    /\ op.name = "priority"
    /\ op.num.lo = 32
    /\ op.ret = "EINVAL"
    /\ priority = 31

\* C6: a UTIL service name of 16 bytes is stored and reads back unchanged;
\* a 17-byte name is refused and the address is left as it was.
C6_UtilServiceLength ==
    [][op'.name = "util.service" =>
          /\ Len(op'.bytes) = 16 =>
                (op'.ret = "ok" /\ UtilService(mem') = op'.bytes)
          /\ Len(op'.bytes) = 17 =>
                (op'.ret # "ok" /\ mem' = mem /\ protocol' = protocol)]_vars

C6_Witness ==
    /\ op.name = "util.service"
    /\ op.ret = "ok"
    /\ Len(op.bytes) = 16
    /\ UtilService(mem) = op.bytes

\* C7: on a socket where CAIFSO_REQ_PARAM may be set, a buffer of 0..256
\* bytes is accepted and stored as given; a buffer of 257 bytes is refused
\* in every state and the stored request parameters stay as they were.
C7_ReqParamLength ==
    [][op'.name = "set.REQ_PARAM" =>
          /\ (Len(op'.bytes) <= 256 /\ sk_state = "UNCONNECTED" /\ ~req_param.set) =>
                (op'.ret = "ok" /\ req_param' = [set |-> TRUE, data |-> op'.bytes])
          /\ Len(op'.bytes) = 257 =>
                (op'.ret # "ok" /\ req_param' = req_param)]_vars

C7_Witness ==
    /\ op.name = "set.REQ_PARAM"
    /\ op.ret = "ok"
    /\ Len(op.bytes) = 256
    /\ req_param.data = op.bytes

\* C8: in an RFM address the connection id reads back as written for every
\* unsigned 32-bit value, a 16-byte volume reads back unchanged, and a store
\* to one of the two leaves the other as it was.
C8_RfmRoundTrip ==
    [][/\ op'.name = "rfm.connection_id" =>
             /\ RfmConnectionId(mem', endian) = op'.num
             /\ RfmVolume(mem') = RfmVolume(mem)
       /\ (op'.name = "rfm.volume" /\ Len(op'.bytes) = 16) =>
             /\ op'.ret = "ok"
             /\ RfmVolume(mem') = op'.bytes
             /\ RfmConnectionId(mem', endian) = RfmConnectionId(mem, endian)]_vars

\* a connection id of 2^32 - 1 stored over a volume written before
C8_Witness ==
    /\ op.name = "rfm.connection_id"
    /\ op.num = U32(65535, 65535)
    /\ RfmConnectionId(mem, endian) = U32(65535, 65535)
    /\ RfmVolume(mem) = Buf(16, 1)

\* every byte outside the payload of arm a is zero, and the two storages agree
Canonical(a) ==
    /\ \A i \in DOMAIN mem \ Payload(a) : mem[i] = 0
    /\ mem = mem2

\* C9 as stated: after an address of any variant is built, every byte of u
\* outside the variant's payload is zero and the address does not depend on
\* what the storage held before.
C9_ZeroOutsidePayload_Original == StoreDone => Canonical(op.arm)

\* C9 amended: after the storage was zeroed and the members of one arm only
\* were stored since, every byte of u outside that arm's payload is zero and
\* the address does not depend on what the storage held before zeroing.
C9_ZeroOutsidePayload ==
    (StoreDone /\ fresh = op.arm) => Canonical(op.arm)

C9_Witness ==
    /\ StoreDone
    /\ fresh = "at"
    /\ op.name = "at.type"
    /\ AtType(mem) = CAIF_ATTYPE_PLAIN
    /\ \A i \in DOMAIN mem \ Payload("at") : mem[i] = 0

\* C10: u is exactly as large as its largest arm: the arms take 1 (AT),
\* 16 (UTIL), 4 (DATAGRAM) and 20 (RFM) bytes, u takes 20, only RFM reaches
\* 20, and no store reaches past the payload of its arm.
C10_PayloadSize ==
    /\ SizeofArm("at") = 1
    /\ SizeofArm("util") = 16
    /\ SizeofArm("dgm") = 4
    /\ SizeofArm("rfm") = 20
    /\ \A a \in Arms : SizeofArm(a) <= 20 /\ (SizeofArm(a) = 20 <=> a = "rfm")
    /\ Cardinality(DOMAIN mem) = 20
    /\ op.arm \in Arms => op.touched \subseteq Payload(op.arm)

C10_Witness ==
    /\ op.name = "rfm.volume"
    /\ op.ret = "ok"
    /\ op.touched = 4 .. 19

====
